---- MODULE Spec2Model ----
(***************************************************************************)
(* 2048: the board transform engine (shared/lib/game/logic.ts) and the     *)
(* game session built on it (useGame, reachedTarget version, with the      *)
(* debug helpers of entities/board/model/debug.ts).                        *)
(*                                                                         *)
(* A board is a sequence of BOARD_SIZE rows, each a sequence of BOARD_SIZE *)
(* naturals; TLA+ sequences are 1-based, so cell b[r][c] of the code is    *)
(* b[r+1][c+1] here.  Coordinates that the code stores as data (Move.from, *)
(* Move.to, lastSpawn) keep the code's 0-based values.                     *)
(***************************************************************************)
EXTENDS Integers, Sequences, FiniteSets, TLC

\* ---------------------------------------------------------------- config
BOARD_SIZE == 4
TARGET == 2048

Directions == {"left", "right", "up", "down"}

\* ------------------------------------------------------- bounds of the model
\* largest exponent of a tile on the boards the engine is probed with
MaxExp == 2
\* exploration budget of a session run, in successful moves
MaxMoves == 5
\* what a debug board override takes from that budget
DebugCost == 2
\* what a newGame takes from that budget
NewGameCost == 3
\* Math.random() calls per run that return 0.9 or more; the others return
\* less than 0.1
MaxHighDraws == 1

\* ---------------------------------------------------------------- helpers
RECURSIVE Pow2(_)
Pow2(n) == IF n = 0 THEN 1 ELSE 2 * Pow2(n - 1)

Max(a, b) == IF a >= b THEN a ELSE b

RECURSIVE SumSeq(_)
SumSeq(s) == IF s = <<>> THEN 0 ELSE Head(s) + SumSeq(Tail(s))

RECURSIVE MaxSeq(_)
MaxSeq(s) == IF s = <<>> THEN 0 ELSE Max(Head(s), MaxSeq(Tail(s)))

RECURSIVE Flatten(_)
Flatten(ss) == IF ss = <<>> THEN <<>> ELSE Head(ss) \o Flatten(Tail(ss))

Reverse(s) == [i \in 1..Len(s) |-> s[Len(s) + 1 - i]]

Take(s, n) == SubSeq(s, 1, IF Len(s) < n THEN Len(s) ELSE n)

\* ------------------------------------------------------------ logic.ts
createEmptyBoard(size) == [r \in 1..size |-> [c \in 1..size |-> 0]]

\* the non-zero cells of a row with their 0-based columns, left to right
RECURSIVE NonZeroFrom(_, _)
NonZeroFrom(row, c) ==
    IF c >= Len(row) THEN <<>>
    ELSE (IF row[c + 1] # 0 THEN <<[v |-> row[c + 1], c |-> c]>> ELSE <<>>)
         \o NonZeroFrom(row, c + 1)

\* a merge test that does not compare the two values
MergesWithAnyNext(nonZero, i) == i + 1 < Len(nonZero)

\* whether entry i of nonZero (0-based) merges with its right neighbour
MergesWithNext(nonZero, i) ==
    /\ i + 1 < Len(nonZero)
    /\ nonZero[i + 1].v = nonZero[i + 2].v

\* the scan loop without the i++ that skips the partner of a merge
NextIndexNoSkip(i, merged) == i + 1

\* the index the scan loop reads next: i++ of the loop, after the extra i++
\* that skips the partner of a merge
NextIndex(i, merged) == IF merged THEN i + 2 ELSE i + 1

\* gained += cur.v in place of gained += sum
AddGainedTile(gained, sum) == gained + sum \div 2

\* gained += sum
AddGained(gained, sum) == gained + sum

\* one pass of the scan loop of slideAndCombineRowLeftWithMoves: st holds the
\* loop's out, gained, moves and writeCol before entry i (0-based) is read
RECURSIVE CombineLoop(_, _, _, _)
CombineLoop(nonZero, i, st, rowIndex) ==
    IF i >= Len(nonZero) THEN st
    ELSE IF MergesWithNext(nonZero, i)
         THEN CombineLoop(nonZero, NextIndex(i, TRUE),
                  [out |-> Append(st.out, nonZero[i + 1].v * 2),
                   gained |-> AddGained(st.gained, nonZero[i + 1].v * 2),
                   moves |-> st.moves \o
                             << [from |-> <<rowIndex, nonZero[i + 1].c>>,
                                 to |-> <<rowIndex, st.writeCol>>,
                                 value |-> nonZero[i + 1].v, merged |-> TRUE],
                                [from |-> <<rowIndex, nonZero[i + 2].c>>,
                                 to |-> <<rowIndex, st.writeCol>>,
                                 value |-> nonZero[i + 1].v, merged |-> TRUE] >>,
                   writeCol |-> st.writeCol + 1],
                  rowIndex)
         ELSE CombineLoop(nonZero, NextIndex(i, FALSE),
                  [out |-> Append(st.out, nonZero[i + 1].v),
                   gained |-> st.gained,
                   moves |-> Append(st.moves,
                                [from |-> <<rowIndex, nonZero[i + 1].c>>,
                                 to |-> <<rowIndex, st.writeCol>>,
                                 value |-> nonZero[i + 1].v, merged |-> FALSE]),
                   writeCol |-> st.writeCol + 1],
                  rowIndex)

LoopStart == [out |-> <<>>, gained |-> 0, moves |-> <<>>, writeCol |-> 0]

\* while (out.length < size) out.push(0)
PadZeros(out, size) ==
    out \o [k \in 1..(IF Len(out) < size THEN size - Len(out) ELSE 0) |-> 0]

\* moved = out[0] !== row[0], the comparison of the first column only
RowMovedFirstCell(out, row) == out[1] # row[1]

\* moved = !out.every((v, c) => v === row[c]); a column past the end of row
\* reads undefined, which equals no number
RowMoved(out, row) ==
    \E c \in 1..Len(out) : c > Len(row) \/ out[c] # row[c]

\* the value slideAndCombineRowLeftWithMoves returns, from the padded out
RowResult(out, res, row) ==
    [newRow |-> out, gained |-> res.gained,
     moved |-> RowMoved(out, row), moves |-> res.moves]

\* the part of slideAndCombineRowLeftWithMoves after the scan loop
AfterLoop(res, row, size) == RowResult(PadZeros(res.out, size), res, row)

slideAndCombineRowLeftWithMoves(row, rowIndex, size) ==
    AfterLoop(CombineLoop(NonZeroFrom(row, 0), 0, LoopStart, rowIndex), row, size)

\* moveLeft's aggregation over the per-row results
CollectRows(rows) ==
    [board |-> [r \in 1..Len(rows) |-> rows[r].newRow],
     moved |-> \E r \in 1..Len(rows) : rows[r].moved,
     gained |-> SumSeq([r \in 1..Len(rows) |-> rows[r].gained]),
     moves |-> Flatten([r \in 1..Len(rows) |-> rows[r].moves])]

moveLeft(b) ==
    CollectRows([r \in 1..Len(b) |->
                    slideAndCombineRowLeftWithMoves(b[r], r - 1, Len(b))])

reverseRows(b) == [r \in 1..Len(b) |-> Reverse(b[r])]

transpose(b) == [r \in 1..Len(b) |-> [c \in 1..Len(b) |-> b[c][r]]]

\* the coordinate fix of moveRight: [r, size - 1 - c]
MirrorCoord(p, size) == <<p[1], size - 1 - p[2]>>

\* the coordinate fix of moveUp / moveDown: [c, r]
SwapCoord(p) == <<p[2], p[1]>>

\* moveRight that does not reverse the rows of the result
MirrorBackUnreversed(left, size) ==
    [board |-> left.board,
     moved |-> left.moved,
     gained |-> left.gained,
     moves |-> left.moves]

\* what moveRight returns from the result of moveLeft on the reversed board
MirrorBack(left, size) ==
    [board |-> reverseRows(left.board),
     moved |-> left.moved,
     gained |-> left.gained,
     moves |-> [k \in 1..Len(left.moves) |->
                   [left.moves[k] EXCEPT
                       !.from = MirrorCoord(left.moves[k].from, size),
                       !.to = MirrorCoord(left.moves[k].to, size)]]]

\* moveUp / moveDown that do not transpose the result back
TransposeBackForgotten(res) ==
    [board |-> res.board,
     moved |-> res.moved,
     gained |-> res.gained,
     moves |-> res.moves]

\* what moveUp / moveDown return from the result on the transposed board
TransposeBack(res) ==
    [board |-> transpose(res.board),
     moved |-> res.moved,
     gained |-> res.gained,
     moves |-> [k \in 1..Len(res.moves) |->
                   [res.moves[k] EXCEPT
                       !.from = SwapCoord(res.moves[k].from),
                       !.to = SwapCoord(res.moves[k].to)]]]

moveRight(b) == MirrorBack(moveLeft(reverseRows(b)), Len(b))

moveUp(b) == TransposeBack(moveLeft(transpose(b)))

moveDown(b) == TransposeBack(moveRight(transpose(b)))

\* const movers = { left: moveLeft, right: moveRight, up: moveUp, down: moveDown }
movers(dir, b) ==
    CASE dir = "left" -> moveLeft(b)
      [] dir = "right" -> moveRight(b)
      [] dir = "up" -> moveUp(b)
      [] dir = "down" -> moveDown(b)

\* the empty cells of b in scan order, as 0-based [r, c]
RECURSIVE EmptiesFrom(_, _)
EmptiesFrom(b, k) ==
    IF k >= Len(b) * Len(b) THEN <<>>
    ELSE LET r == k \div Len(b)
             c == k % Len(b)
         IN (IF b[r + 1][c + 1] = 0 THEN << <<r, c>> >> ELSE <<>>)
            \o EmptiesFrom(b, k + 1)

\* hasMoves without the check of the cell below
hasMovesRowsOnly(b) ==
    \/ \E r \in 1..Len(b), c \in 1..Len(b) : b[r][c] = 0
    \/ \E r \in 1..Len(b), c \in 1..Len(b) :
          c + 1 <= Len(b) /\ b[r][c] = b[r][c + 1]

hasMoves(b) ==
    \/ \E r \in 1..Len(b), c \in 1..Len(b) : b[r][c] = 0
    \/ \E r \in 1..Len(b), c \in 1..Len(b) :
          \/ r + 1 <= Len(b) /\ b[r][c] = b[r + 1][c]
          \/ c + 1 <= Len(b) /\ b[r][c] = b[r][c + 1]

\* maxTile without .flat(): the maximum of the first row
maxTileFirstRow(b) == MaxSeq(Head(b))

maxTile(b) == MaxSeq(Flatten(b))

\* Math.random() is drawn in tenths: a draw d stands for the value d / 10
Draws == {0, 9}

\* 1 for a draw counted against MaxHighDraws
High(d) == IF d >= 9 THEN 1 ELSE 0

Null == <<>>

\* empties[Math.floor(Math.random() * empties.length)]
PickIndex(d, len) == (d * len) \div 10

\* Math.random() < 0.9 ? 2 : 6
PickValueSix(d) == IF d < 9 THEN 2 ELSE 6

\* Math.random() < 0.9 ? 2 : 4
PickValue(d) == IF d < 9 THEN 2 ELSE 4

PlaceAt(b, p, val) ==
    [board |-> [b EXCEPT ![p[1] + 1][p[2] + 1] = val], pos |-> p]

\* nb[r][c] = val for the cell picked among empties
PlaceTile(b, empties, dPos, dVal) ==
    IF Len(empties) = 0 THEN [board |-> b, pos |-> Null]
    ELSE PlaceAt(b, empties[PickIndex(dPos, Len(empties)) + 1], PickValue(dVal))

\* addRandomTile that collects every cell, empty or not
addRandomTileAnyCell(b, dPos, dVal) ==
    PlaceTile(b,
              [k \in 1..(Len(b) * Len(b)) |-> <<(k - 1) \div Len(b), (k - 1) % Len(b)>>],
              dPos, dVal)

addRandomTile(b, dPos, dVal) == PlaceTile(b, EmptiesFrom(b, 0), dPos, dVal)

\* --------------------------------------------------------------- session
VARIABLES
    board, score, best, won, over, lastSpawn, history, reachedTarget,
    bestGlobal,     \* React state of useGame
    snapshot,       \* localStorage['2048:snapshot:' + playerId], parsed
    globalBestKey,  \* localStorage['2048:bestGlobal'] as a number
    parked,         \* the stored snapshot of the profile that is not active, or Null
    players,        \* usePlayers: the listed profiles { id, name }, newest first
    currentId,      \* usePlayers: the id of the active profile, or NullId
    hookFile,       \* the version of the hook that runs: "part_004" or "useGame.ts"
    storeFull,      \* localStorage.setItem throws QuotaExceededError from now on
    lastOp,         \* the handler that ran last, and whether it wrote storage
    dismissed,      \* continueGame has closed the win modal in this game
    trail,          \* pre-move {board, score} of the current run of moves
    undone,         \* entries undo has popped since the last successful move
    fuel,           \* exploration budget left
    highDraws,      \* high Math.random() draws so far
    probe           \* engine probe: the last directional call and its result

sessionVars == <<board, score, best, won, over, lastSpawn, history, reachedTarget>>
storeVars == <<snapshot, globalBestKey, parked>>
rosterVars == <<players, currentId>>
ghostVars == <<dismissed, trail, undone, fuel, highDraws>>
envVars == <<hookFile, storeFull>>
vars ==
    <<sessionVars, bestGlobal, storeVars, rosterVars, envVars, lastOp, ghostVars, probe>>

SnapFields ==
    {"board", "score", "best", "won", "over", "lastSpawn", "history", "reachedTarget"}

\* the values persistAll closes over
Current ==
    [board |-> board, score |-> score, best |-> best, won |-> won,
     over |-> over, lastSpawn |-> lastSpawn, history |-> history,
     reachedTarget |-> reachedTarget]

\* { board, score, ..., reachedTarget, ...payload }
Merged(payload) ==
    [f \in SnapFields |-> IF f \in DOMAIN payload THEN payload[f] ELSE Current[f]]

\* bumpGlobalBest(candidateBest) on the stored global floor
bumpGlobalBest(cur, candidateBest) ==
    IF candidateBest > cur THEN candidateBest ELSE cur

\* persisted.f ?? fallback
FieldOr(rec, f, fallback) == IF f \in DOMAIN rec THEN rec[f] ELSE fallback

\* what a snapshot offers to the global best: Number(s.best ?? 0) in part_004,
\* Math.max(Number(s.best ?? 0), Number(s.score ?? 0)) in useGame.ts
Candidate(s) ==
    IF hookFile = "useGame.ts"
    THEN Max(FieldOr(s, "best", 0), FieldOr(s, "score", 0))
    ELSE FieldOr(s, "best", 0)

\* the candidate of a stored snapshot, 0 where no snapshot is stored
StoredBest(stored) == IF stored # Null THEN Candidate(stored) ELSE 0

\* computeGlobalBest: the floor and the best of every stored snapshot
ScanBest(floor, a, b) == Max(floor, Max(StoredBest(a), StoredBest(b)))

computeGlobalBest(floor, snap) == ScanBest(floor, snap, parked)

\* persistAll with one storage key for every player
StoreSnapshotShared(snap, floor) ==
    /\ snapshot' = snap
    /\ parked' = snap
    /\ globalBestKey' = floor
    /\ bestGlobal' = computeGlobalBest(floor, snap)

\* the writes of persistAll for the merged snapshot snap and the new floor
StoreSnapshot(snap, floor) ==
    /\ snapshot' = snap
    /\ parked' = parked
    /\ globalBestKey' = floor
    /\ bestGlobal' = computeGlobalBest(floor, snap)

BumpAndStore(snap) == StoreSnapshot(snap, bumpGlobalBest(globalBestKey, Candidate(snap)))

\* localStorage.setItem throws: persistAll is left at its first statement
\* after the snapshot is built, nothing is bumped and bestGlobal is not set
SetItemThrows == UNCHANGED <<snapshot, parked, globalBestKey, bestGlobal>>

\* persistAll(payload): write the snapshot, bump the floor, refresh bestGlobal
persistAll(payload) ==
    IF storeFull THEN SetItemThrows ELSE BumpAndStore(Merged(payload))

\* what a handler did: result is "done", "ignored" for an early return, or
\* "raised" where the handler reached its storage write and setItem threw;
\* wrote tells that the write took place
Op(name, dir, result, wrote) ==
    [name |-> name, dir |-> dir,
     result |-> IF wrote /\ storeFull THEN "raised" ELSE result,
     wrote |-> wrote /\ ~storeFull]

\* ------------------------------------------------------- useGame handlers
\* the depth of the undo stack: .slice(0, 3)
UNDO_DEPTH == 3

NoProbe == [dir |-> "none", arg |-> <<>>, ret |-> <<>>]

\* the ids uid() draws for profiles, and the mount effect of usePlayers for
\* an empty list: 'Player 1' is created and made current
PlayerIds == {"p1", "p2"}
OneProfile ==
    /\ players = <<[id |-> "p1", name |-> "Player 1"]>>
    /\ currentId = "p1"

\* createEmptyBoard, addRandomTile, addRandomTile: the board, the position of
\* the second tile, and the high draws it took
SecondTile(b2, highs) == [board |-> b2.board, pos |-> b2.pos, highs |-> highs]

\* a fresh board seeded with one addRandomTile in place of two
FreshBoardsOneTile ==
    { SecondTile(addRandomTile(createEmptyBoard(BOARD_SIZE), p1, v1),
                 High(p1) + High(v1))
        : p1 \in Draws, v1 \in Draws }

FreshBoards ==
    { SecondTile(addRandomTile(
                     addRandomTile(createEmptyBoard(BOARD_SIZE), p1, v1).board, p2, v2),
                 High(p1) + High(v1) + High(p2) + High(v2))
        : p1 \in Draws, v1 \in Draws, p2 \in Draws, v2 \in Draws }

\* the mount effect for a player with no stored snapshot, in the hook of file
InitWith(file) ==
    \E b2 \in FreshBoards :
       /\ b2.highs <= MaxHighDraws
       /\ board = b2.board
       /\ lastSpawn = b2.pos
       /\ score = 0
       /\ best = 0
       /\ won = FALSE
       /\ over = FALSE
       /\ history = <<>>
       /\ reachedTarget = (maxTile(b2.board) >= TARGET)
       /\ snapshot = [board |-> b2.board, score |-> 0, best |-> 0, won |-> FALSE,
                      over |-> FALSE, lastSpawn |-> b2.pos, history |-> <<>>,
                      reachedTarget |-> (maxTile(b2.board) >= TARGET)]
       /\ parked = Null
       /\ OneProfile
       /\ hookFile = file
       /\ storeFull = FALSE
       /\ globalBestKey = 0
       /\ bestGlobal = 0
       /\ lastOp = Op("init", "-", "done", TRUE)
       /\ dismissed = FALSE
       /\ trail = <<>>
       /\ undone = 0
       /\ fuel = MaxMoves
       /\ highDraws = b2.highs
       /\ probe = NoProbe

Init == InitWith("part_004")

\* if (over) return
BlockedByOver(ov) == ov

\* applyMove without the moved check
NotMovedNever(mr) == FALSE

\* if (!moved) return
NotMoved(mr) == ~mr.moved

\* applyMove without its early returns
EarlyReturnNever(ov, mr) == FALSE

\* the two early returns of applyMove
EarlyReturn(ov, mr) == BlockedByOver(ov) \/ NotMoved(mr)

\* the history push without .slice(0, 3)
PushHistoryUncapped(entry, h) == <<entry>> \o h

\* the history push with the entry put last: [...h, entry].slice(0, 3)
PushHistoryAppended(entry, h) == Take(h \o <<entry>>, UNDO_DEPTH)

\* [{ board, score, won, over }, ...h].slice(0, 3)
PushHistory(entry, h) == Take(<<entry>> \o h, UNDO_DEPTH)

\* the win rule on won in place of reachedTarget: if (!won && maxV >= TARGET)
FirstReachWhileNotWon(reached, wonNow, maxV) == ~wonNow /\ maxV >= TARGET

\* if (!reachedTarget && maxV >= TARGET)
FirstReach(reached, wonNow, maxV) == ~reached /\ maxV >= TARGET

\* the payload applyMove hands to persistAll
MovePayload(nb, ns, pos, maxV) ==
    [board |-> nb, score |-> ns, best |-> Max(best, ns), lastSpawn |-> pos,
     won |-> (won \/ FirstReach(reachedTarget, won, maxV)),
     reachedTarget |-> (reachedTarget \/ maxV >= TARGET),
     over |-> over]

TrailEntry == [board |-> board, score |-> score]

\* applyMove returned early: nothing is set, nothing is stored
ApplyMoveIgnored(dir) ==
    /\ lastOp' = Op("applyMove", dir, "ignored", FALSE)
    /\ UNCHANGED <<sessionVars, bestGlobal, storeVars, ghostVars, probe, rosterVars, envVars>>

\* the set-state calls and the persistAll of applyMove, for the spawned board
\* nb, the new score ns, the spawn position and maxV = maxTile(nb)
CommitMove(dir, nb, ns, pos, maxV) ==
    /\ history' = PushHistory(
                     [board |-> board, score |-> score, won |-> won, over |-> over],
                     history)
    /\ board' = nb
    /\ score' = ns
    /\ lastSpawn' = pos
    /\ best' = IF ns > best THEN ns ELSE best
    /\ won' = IF FirstReach(reachedTarget, won, maxV) THEN TRUE ELSE won
    /\ reachedTarget' =
          IF FirstReach(reachedTarget, won, maxV) THEN TRUE ELSE reachedTarget
    /\ over' = IF ~hasMoves(nb) THEN TRUE ELSE over
    /\ persistAll(MovePayload(nb, ns, pos, maxV))
    /\ lastOp' = Op("applyMove", dir, "done", TRUE)
    /\ trail' = IF undone > 0 THEN <<TrailEntry>>
                ELSE Take(<<TrailEntry>> \o trail, MaxMoves)
    /\ undone' = 0
    /\ fuel' = fuel - 1
    /\ UNCHANGED <<dismissed, probe, rosterVars, envVars>>

\* applyMove that commits the merged board's tile but setLastSpawn(null)
ApplyMoveSpawnedUnmarked(dir, gained, spawned) ==
    CommitMove(dir, spawned.board, score + gained, Null, maxTile(spawned.board))

\* applyMove with ns = score - gained in place of ns = score + gained
ApplyMoveSpawnedLoss(dir, gained, spawned) ==
    CommitMove(dir, spawned.board, score - gained, spawned.pos, maxTile(spawned.board))

\* applyMove with ns = score in place of ns = score + gained
ApplyMoveSpawnedNoGain(dir, gained, spawned) ==
    CommitMove(dir, spawned.board, score, spawned.pos, maxTile(spawned.board))

\* applyMove after the spawn: spawned = addRandomTile(movedBoard)
ApplyMoveSpawned(dir, gained, spawned) ==
    CommitMove(dir, spawned.board, score + gained, spawned.pos, maxTile(spawned.board))

\* applyMove once movers[dir](board) has returned mr
ApplyMoveWith(dir, mr) ==
    IF EarlyReturn(over, mr)
    THEN ApplyMoveIgnored(dir)
    ELSE /\ fuel > 0
         /\ \E dPos \in Draws, dVal \in Draws :
               /\ highDraws + High(dPos) + High(dVal) <= MaxHighDraws
               /\ highDraws' = highDraws + High(dPos) + High(dVal)
               /\ ApplyMoveSpawned(dir, mr.gained, addRandomTile(mr.board, dPos, dVal))

applyMove(dir) == ApplyMoveWith(dir, movers(dir, board))

\* the undo payload without history: rest
UndoPayloadNoHistory(prev, rest) ==
    [board |-> prev.board, score |-> prev.score, won |-> prev.won,
     over |-> prev.over, lastSpawn |-> Null]

\* the payload undo hands to persistAll
UndoPayload(prev, rest) ==
    [board |-> prev.board, score |-> prev.score, won |-> prev.won,
     over |-> prev.over, lastSpawn |-> Null, history |-> rest]

\* undo on a non-empty history: const [prev, ...rest] = h
UndoTo(prev, rest) ==
    /\ board' = prev.board
    /\ score' = prev.score
    /\ won' = prev.won
    /\ over' = prev.over
    /\ lastSpawn' = Null
    /\ history' = rest
    /\ persistAll(UndoPayload(prev, rest))
    /\ lastOp' = Op("undo", "-", "done", TRUE)
    /\ undone' = undone + 1
    /\ UNCHANGED <<best, reachedTarget, probe, rosterVars, envVars, dismissed, trail, fuel, highDraws>>

\* setItem throws inside the updater handed to setHistory: the updater never
\* returns, the render that runs it throws, and without an error boundary
\* React unmounts the tree; the last committed values are kept here
UndoCrashes ==
    /\ lastOp' = [name |-> "undo", dir |-> "-", result |-> "crashed", wrote |-> FALSE]
    /\ UNCHANGED <<sessionVars, bestGlobal, storeVars, ghostVars, probe, rosterVars, envVars>>

undo ==
    IF Len(history) = 0
    THEN /\ lastOp' = Op("undo", "-", "ignored", FALSE)
         /\ UNCHANGED <<sessionVars, bestGlobal, storeVars, ghostVars, probe, rosterVars, envVars>>
    ELSE IF storeFull
         THEN UndoCrashes
         ELSE UndoTo(Head(history), Tail(history))

\* the Continue button exists only while the win modal is shown
continueGame ==
    /\ won
    /\ won' = FALSE
    /\ persistAll([won |-> FALSE, reachedTarget |-> TRUE])
    /\ lastOp' = Op("continueGame", "-", "done", TRUE)
    /\ dismissed' = TRUE
    /\ UNCHANGED <<board, score, best, over, lastSpawn, history, reachedTarget,
                   probe, rosterVars, envVars, trail, undone, fuel, highDraws>>

newGame ==
    /\ fuel >= NewGameCost
    /\ \E b2 \in FreshBoards :
          /\ highDraws + b2.highs <= MaxHighDraws
          /\ highDraws' = highDraws + b2.highs
          /\ board' = b2.board
          /\ lastSpawn' = b2.pos
          /\ score' = 0
          /\ won' = FALSE
          /\ over' = FALSE
          /\ history' = <<>>
          /\ reachedTarget' = FALSE
          /\ persistAll([board |-> b2.board, score |-> 0, lastSpawn |-> b2.pos,
                         won |-> FALSE, over |-> FALSE, reachedTarget |-> FALSE])
    /\ lastOp' = Op("newGame", "-", "done", TRUE)
    /\ dismissed' = FALSE
    /\ trail' = <<>>
    /\ undone' = 0
    /\ fuel' = fuel - NewGameCost
    /\ UNCHANGED <<best, probe, rosterVars, envVars>>

\* ------------------------------------------------------------- debug.ts
\* next.flat().reduce((a, v) => a + (v > 0 ? v : 0), 0)
RECURSIVE SumPositive(_)
SumPositive(s) ==
    IF s = <<>> THEN 0
    ELSE (IF Head(s) > 0 THEN Head(s) ELSE 0) + SumPositive(Tail(s))

\* the win of debugSetBoard taken one tile early: maxV >= TARGET / 2
DebugWonHalfTarget(nextReached, maxV) ==
    IF ~nextReached /\ maxV >= TARGET \div 2 THEN TRUE ELSE won

\* !nextReached && maxV >= TARGET ? true : won
DebugWon(nextReached, maxV) ==
    IF ~nextReached /\ maxV >= TARGET THEN TRUE ELSE won

\* the set-state calls and the persistAll of debugSetBoard
DebugCommit(next, nextScore, maxV, nextReached) ==
    /\ board' = next
    /\ score' = nextScore
    /\ won' = DebugWon(nextReached, maxV)
    /\ over' = ~hasMoves(next)
    /\ lastSpawn' = Null
    /\ history' = <<>>
    /\ reachedTarget' = nextReached
    /\ persistAll([board |-> next, score |-> nextScore,
                   won |-> DebugWon(nextReached, maxV),
                   over |-> ~hasMoves(next), lastSpawn |-> Null,
                   history |-> <<>>, reachedTarget |-> nextReached,
                   best |-> Max(best, nextScore)])
    /\ lastOp' = Op("debugSetBoard", "-", "done", TRUE)
    /\ trail' = <<>>
    /\ undone' = 0
    /\ fuel' = fuel - DebugCost
    /\ UNCHANGED <<best, probe, rosterVars, envVars, dismissed, highDraws>>

\* debugSetBoard with nextReached = maxV >= TARGET, the latch not consulted
DebugWithMaxForgetful(next, maxV) ==
    DebugCommit(next, SumPositive(Flatten(next)), maxV, maxV >= TARGET)

\* a debugSetBoard that leaves the score of the session in place
NextScoreKept(next) == score

\* const nextScore = next.flat().reduce(...)
NextScore(next) == SumPositive(Flatten(next))

\* debugSetBoard once maxV = maxTile(next) is known
DebugWithMax(next, maxV) ==
    DebugCommit(next, NextScore(next), maxV, reachedTarget \/ maxV >= TARGET)

debugSetBoard(next) ==
    /\ fuel >= DebugCost
    /\ DebugWithMax(next, maxTile(next))

\* the board debugQuickMerge builds: two equal tiles to merge along dir
QuickBoard(value, dir) ==
    CASE dir = "left" ->
            [createEmptyBoard(4) EXCEPT ![1][1] = value, ![1][2] = value]
      [] dir = "right" ->
            [createEmptyBoard(4) EXCEPT ![1][4] = value, ![1][3] = value]
      [] dir = "up" ->
            [createEmptyBoard(4) EXCEPT ![1][1] = value, ![2][1] = value]
      [] OTHER ->
            [createEmptyBoard(4) EXCEPT ![4][1] = value, ![3][1] = value]

\* the quick-merge buttons explored, of values [1024, 2048, 4096, 8192] x dirs
QuickValues == {1024, 2048}
QuickDirs == {"left", "down"}

debugQuickMerge(value, dir) == debugSetBoard(QuickBoard(value, dir))

\* matrices pasted into the debug panel: a board with no move, and a board
\* one move away from it
StuckBoard ==
    << <<2, 4, 2, 4>>, <<4, 2, 4, 2>>, <<2, 4, 2, 4>>, <<4, 2, 4, 2>> >>
NearlyStuckBoard ==
    << <<0, 8, 16, 8>>, <<4, 2, 4, 2>>, <<2, 4, 2, 4>>, <<4, 2, 4, 2>> >>
CustomBoards == {StuckBoard, NearlyStuckBoard}

\* the "Set board" button: a 4x4 array of arrays passes, anything else alerts
PanelAccepts(parsed) ==
    /\ Len(parsed) = 4
    /\ \A r \in 1..Len(parsed) : Len(parsed[r]) = 4

panelSetBoard(parsed) ==
    /\ PanelAccepts(parsed)
    /\ debugSetBoard(parsed)

\* ------------------------------------------------------------ the session
Next ==
    \/ \E dir \in Directions : applyMove(dir)
    \/ undo
    \/ continueGame
    \/ newGame
    \/ \E v \in QuickValues, d \in QuickDirs : debugQuickMerge(v, d)
    \/ \E m \in CustomBoards : panelSetBoard(m)

Spec == Init /\ [][Next]_vars

\* ------------------------------------------------------- a store that fills
\* the quota of localStorage is used up by other data of the origin: every
\* setItem throws from here on
QuotaCost == 2

quotaExceeded ==
    /\ ~storeFull
    /\ fuel >= QuotaCost
    /\ storeFull' = TRUE
    /\ fuel' = fuel - QuotaCost
    /\ lastOp' = Op("quotaExceeded", "-", "done", FALSE)
    /\ UNCHANGED <<sessionVars, bestGlobal, storeVars, rosterVars, hookFile,
                   dismissed, trail, undone, highDraws, probe>>

\* the tree of the page is mounted: no render has thrown
Mounted == lastOp.result # "crashed"

NextQuota ==
    \/ Mounted /\ \E dir \in Directions : applyMove(dir)
    \/ Mounted /\ undo
    \/ Mounted /\ continueGame
    \/ Mounted /\ newGame
    \/ Mounted /\ \E v \in QuickValues, d \in QuickDirs : debugQuickMerge(v, d)
    \/ Mounted /\ \E m \in CustomBoards : panelSetBoard(m)
    \/ Mounted /\ quotaExceeded

SpecQuota == Init /\ [][NextQuota]_vars

\* ------------------------------------------------- the Set board textarea
\* texts typed into the panel: JSON of a matrix, or a text that does not parse
Matrix(m) == [parsed |-> m]
NotJson == [raw |-> "[[2,2"]

\* three rows; four rows of which one is short; a 4x4 with a negative cell
ShortMatrix == << <<2, 2, 0, 0>>, <<0, 0, 0, 0>>, <<0, 0, 0, 0>> >>
RaggedMatrix == << <<2, 2, 0, 0>>, <<0, 0, 0>>, <<0, 0, 0, 0>>, <<0, 0, 0, 0>> >>
NegativeMatrix ==
    << <<-2, 2, 0, 0>>, <<0, 0, 0, 0>>, <<0, 0, 0, 0>>, <<0, 0, 0, 4>> >>

PanelTexts ==
    {NotJson} \cup
    { Matrix(m) : m \in CustomBoards \cup {ShortMatrix, RaggedMatrix, NegativeMatrix} }

\* alert(message); return
PanelAlerts(message) ==
    /\ fuel >= DebugCost
    /\ fuel' = fuel - DebugCost
    /\ lastOp' = [name |-> "setBoardClick", dir |-> message,
                  result |-> "rejected", wrote |-> FALSE]
    /\ UNCHANGED <<sessionVars, bestGlobal, storeVars, rosterVars, envVars,
                   dismissed, trail, undone, highDraws, probe>>

\* onClick of the Set board button
setBoardClick(text) ==
    IF "raw" \in DOMAIN text
    THEN PanelAlerts("Invalid JSON")
    ELSE IF ~PanelAccepts(text.parsed)
         THEN PanelAlerts("Matrix must be 4x4 array of numbers")
         ELSE debugSetBoard(text.parsed)

NextPanel ==
    \/ \E dir \in Directions : applyMove(dir)
    \/ undo
    \/ \E text \in PanelTexts : setBoardClick(text)

SpecPanel == Init /\ [][NextPanel]_vars

\* ------------------------------------------------------- probing the engine
\* tile values on probed boards: empty or 2^1 .. 2^MaxExp
ProbeValues == {0} \cup { Pow2(k) : k \in 1..MaxExp }
ProbeLines == [1..BOARD_SIZE -> ProbeValues]
ZeroLine == [c \in 1..BOARD_SIZE |-> 0]
RowWiseBoards ==
    { <<a, b, ZeroLine, ZeroLine>> :
         a \in ProbeLines, b \in { l \in ProbeLines : l[BOARD_SIZE] = 0 } }
ProbeBoards == RowWiseBoards \cup { transpose(b) : b \in RowWiseBoards }

InitEngine ==
    /\ \E b \in ProbeBoards :
          probe = [dir |-> "none", arg |-> b,
                   ret |-> [board |-> b, moved |-> FALSE, gained |-> 0, moves |-> <<>>]]
    /\ board = createEmptyBoard(BOARD_SIZE)
    /\ score = 0
    /\ best = 0
    /\ won = FALSE
    /\ over = FALSE
    /\ lastSpawn = Null
    /\ history = <<>>
    /\ reachedTarget = FALSE
    /\ bestGlobal = 0
    /\ snapshot = <<>>
    /\ parked = Null
    /\ OneProfile
    /\ hookFile = "part_004"
    /\ storeFull = FALSE
    /\ globalBestKey = 0
    /\ lastOp = Op("init", "-", "done", FALSE)
    /\ dismissed = FALSE
    /\ trail = <<>>
    /\ undone = 0
    /\ fuel = 0
    /\ highDraws = 0

\* call movers[dir] on the board the previous call returned
Probe(dir) ==
    /\ probe' = [dir |-> dir, arg |-> probe.ret.board,
                 ret |-> movers(dir, probe.ret.board)]
    /\ UNCHANGED <<sessionVars, bestGlobal, storeVars, rosterVars, envVars, lastOp, ghostVars>>

NextEngine == \E dir \in Directions : Probe(dir)

SpecEngine == InitEngine /\ [][NextEngine]_vars

\* ------------------------------------------------------------ profiles
\* two profiles: the active one, whose snapshot key is snapshot, and the
\* other one, whose snapshot key is parked (Null until it has played)
SwitchCost == 2

\* what the mount effect sets from a stored snapshot that has a board
Rehydrate(persisted) ==
    [board |-> persisted.board,
     score |-> FieldOr(persisted, "score", 0),
     best |-> FieldOr(persisted, "best", 0),
     won |-> FieldOr(persisted, "won", FALSE),
     over |-> FieldOr(persisted, "over", FALSE),
     lastSpawn |-> FieldOr(persisted, "lastSpawn", Null),
     history |-> FieldOr(persisted, "history", <<>>),
     reachedTarget |->
        FieldOr(persisted, "reachedTarget", maxTile(persisted.board) >= TARGET)]

LoadSession(s) ==
    /\ board' = s.board
    /\ score' = s.score
    /\ best' = s.best
    /\ won' = s.won
    /\ over' = s.over
    /\ lastSpawn' = s.lastSpawn
    /\ history' = s.history
    /\ reachedTarget' = s.reachedTarget

\* the snapshot the mount effect stores for a player who has none
FreshSnapshot(b2) ==
    [board |-> b2.board, score |-> 0, best |-> 0, won |-> FALSE, over |-> FALSE,
     lastSpawn |-> b2.pos, history |-> <<>>,
     reachedTarget |-> (maxTile(b2.board) >= TARGET)]

\* a session starts over: the ghosts of the running game are reset
SessionStarts(name, wrote, cost) ==
    /\ lastOp' = Op(name, "-", "done", wrote)
    /\ dismissed' = FALSE
    /\ trail' = <<>>
    /\ undone' = 0
    /\ fuel' = fuel - cost
    /\ UNCHANGED <<probe, envVars>>

\* the mount effect for the other profile, which has a stored snapshot
MountStoredAs(name) ==
    /\ LoadSession(Rehydrate(parked))
    /\ snapshot' = parked
    /\ parked' = snapshot
    /\ bestGlobal' = ScanBest(globalBestKey, parked, snapshot)
    /\ SessionStarts(name, FALSE, SwitchCost)
    /\ UNCHANGED <<globalBestKey, highDraws>>

MountStored == MountStoredAs("select")

\* the mount effect for the other profile, which has no stored snapshot
MountFreshAs(name) ==
    /\ \E b2 \in FreshBoards :
          /\ highDraws + b2.highs <= MaxHighDraws
          /\ highDraws' = highDraws + b2.highs
          /\ LoadSession(FreshSnapshot(b2))
          /\ snapshot' = FreshSnapshot(b2)
    /\ parked' = snapshot
    /\ bestGlobal' = ScanBest(globalBestKey, Null, snapshot)
    /\ SessionStarts(name, TRUE, SwitchCost)
    /\ UNCHANGED globalBestKey

MountFresh == MountFreshAs("select")

\* useGame's mount effect after playerId changed to the other id
MountOther(name) ==
    IF parked # Null THEN MountStoredAs(name) ELSE MountFreshAs(name)

\* playerId did not change: the mount effect does not run again
SameSession(name) ==
    /\ lastOp' = Op(name, "-", "done", FALSE)
    /\ fuel' = fuel - SwitchCost
    /\ UNCHANGED <<sessionVars, bestGlobal, storeVars, dismissed, trail, undone,
                   highDraws, probe, envVars>>

Listed(id) == \E i \in 1..Len(players) : players[i].id = id

\* the profiles listed at once
MaxPlayers == 3

\* uid(): Math.random().toString(36).slice(2, 10), with no look at the list
uid == PlayerIds

\* null for a PlayerId | null
NullId == "null"

\* the names typed into the menu: one of blanks only, one padded with blanks
TypedNames == {"  ", " Ann ", "Bob", "Player 1"}

\* name.trim()
Trim(name) ==
    CASE name = "  " -> ""
      [] name = " Ann " -> "Ann"
      [] OTHER -> name

\* name.trim() || fallback
TrimOr(name, fallback) == IF Trim(name) = "" THEN fallback ELSE Trim(name)

\* players.filter((p) => p.id !== id)
WithoutId(list, id) == SelectSeq(list, LAMBDA p : p.id # id)

\* select(id): setCurrentId(id)
select(id) ==
    /\ currentId' = id
    /\ players' = players

\* create(name) when uid() returns id: list = [p, ...players], and p is
\* made current
create(id, name) ==
    /\ players' = <<[id |-> id, name |-> TrimOr(name, "Player")]>> \o players
    /\ currentId' = id

\* rename(id, name): the profiles with this id get the trimmed name, or keep
\* theirs when it is blank
rename(id, name) ==
    /\ players' = [i \in 1..Len(players) |->
                      IF players[i].id = id
                      THEN [players[i] EXCEPT !.name = TrimOr(name, players[i].name)]
                      ELSE players[i]]
    /\ currentId' = currentId

\* remove as written, but the current id is kept whatever is removed
removeKeepsCurrent(id) ==
    /\ players' = WithoutId(players, id)
    /\ currentId' = currentId

\* remove(id): list = players.filter(...), and if the removed profile was
\* current, next = list[0]?.id ?? null becomes current
remove(id) ==
    /\ players' = WithoutId(players, id)
    /\ currentId' =
          IF currentId = id
          THEN IF WithoutId(players, id) # <<>>
               THEN WithoutId(players, id)[1].id
               ELSE NullId
          ELSE currentId

\* select(id) of a listed profile that is not the active one, then the mount
\* effect of useGame for the new playerId
selectPlayer ==
    /\ fuel >= SwitchCost
    /\ \E id \in PlayerIds :
          /\ Listed(id)
          /\ id # currentId
          /\ select(id)
    /\ MountOther("select")

\* create(name): the new profile heads the list and becomes current
createPlayer ==
    /\ fuel >= SwitchCost
    /\ Len(players) < MaxPlayers
    /\ \E id \in uid :
          /\ create(id, "Player 1")
          /\ IF id = currentId THEN SameSession("create") ELSE MountOther("create")

\* remove(id) while another profile stays listed: the list is stored, and if
\* the removed profile was current the first of the rest becomes current
removePlayer ==
    /\ fuel >= SwitchCost
    /\ \E id \in PlayerIds :
          /\ Listed(id)
          /\ WithoutId(players, id) # <<>>
          /\ remove(id)
          /\ IF currentId = id
             THEN MountOther("remove")
             ELSE SameSession("remove")

\* the page is loaded again: the mount effect for the same player
reload ==
    /\ fuel >= SwitchCost
    /\ LoadSession(Rehydrate(snapshot))
    /\ bestGlobal' = ScanBest(globalBestKey, snapshot, parked)
    /\ SessionStarts("reload", FALSE, SwitchCost)
    /\ UNCHANGED <<storeVars, highDraws, rosterVars>>

\* the budget a resetBest takes
ResetCost == 2

\* s.best = 0 on a stored snapshot
ZeroBest(stored) ==
    IF stored = Null
    THEN Null
    ELSE [f \in DOMAIN stored \cup {"best"} |-> IF f = "best" THEN 0 ELSE stored[f]]

\* resetBest for every player: the loop over the snapshot keys, the floor set
\* to '0', setBest(0), setBestGlobal(0), and persistAll({ best: 0 }) writing
\* snap over the active key and bumping the floor
ResetAllTo(snap, floor) ==
    /\ best' = 0
    /\ snapshot' = snap
    /\ parked' = ZeroBest(parked)
    /\ globalBestKey' = floor
    /\ bestGlobal' = ScanBest(floor, snap, ZeroBest(parked))

ResetAll ==
    ResetAllTo(Merged([best |-> 0]),
               bumpGlobalBest(0, Candidate(Merged([best |-> 0]))))

\* scope === 'current': setBest(0); persistAll({ best: 0 })
ResetCurrent ==
    /\ best' = 0
    /\ persistAll([best |-> 0])

\* resetBest(scope); the hook of part_004 takes no scope and resets all
resetBest(scope) ==
    /\ fuel >= ResetCost
    /\ IF scope = "current" THEN ResetCurrent ELSE ResetAll
    /\ lastOp' = Op("resetBest", scope, "done", TRUE)
    /\ fuel' = fuel - ResetCost
    /\ UNCHANGED <<board, score, won, over, lastSpawn, history, reachedTarget,
                   rosterVars, envVars, dismissed, trail, undone, highDraws, probe>>

NextProfiles ==
    \/ Next
    \/ selectPlayer
    \/ createPlayer
    \/ removePlayer
    \/ reload
    \/ resetBest("all")

SpecProfiles == Init /\ [][NextProfiles]_vars

\* the hook as src/entities/board/model/useGame.ts has it: it differs from
\* the hook of part_004 in the candidate a snapshot offers to the global
\* best (Candidate), in resetBest taking a scope, and in having neither
\* reachedTarget nor the debug helpers. No tile reaches TARGET without
\* the debug helpers here, so the win rule and continueGame stay idle.
InitUseGameTs == InitWith("useGame.ts")

NextUseGameTs ==
    \/ \E dir \in Directions : applyMove(dir)
    \/ undo
    \/ newGame
    \/ selectPlayer
    \/ createPlayer
    \/ removePlayer
    \/ reload
    \/ \E scope \in {"current", "all"} : resetBest(scope)

SpecUseGameTs == InitUseGameTs /\ [][NextUseGameTs]_vars


\* ------------------------------------------------- loading what is stored
\* a stored string JSON.parse throws on
Unparsable == [raw |-> "{"]

\* two stored games: one after a merge, with an undo entry, and a won one
PlayedSnapshot ==
    [board |-> [createEmptyBoard(BOARD_SIZE) EXCEPT ![1] = <<4, 0, 2, 0>>, ![2] = <<8, 0, 0, 0>>],
     score |-> 12, best |-> 16, won |-> FALSE, over |-> FALSE,
     lastSpawn |-> <<0, 2>>,
     history |-> <<[board |-> [createEmptyBoard(BOARD_SIZE)
                                  EXCEPT ![1] = <<2, 2, 0, 0>>, ![2] = <<8, 0, 0, 0>>],
                    score |-> 8, won |-> FALSE, over |-> FALSE]>>,
     reachedTarget |-> FALSE]

WonSnapshot ==
    [board |-> [createEmptyBoard(BOARD_SIZE) EXCEPT ![4] = <<2048, 2, 0, 0>>],
     score |-> 2048, best |-> 2048, won |-> TRUE, over |-> FALSE,
     lastSpawn |-> <<3, 1>>, history |-> <<>>, reachedTarget |-> TRUE]

\* the record with the fields of full that are in keep
Restrict(full, keep) == [f \in keep |-> full[f]]

\* what the snapshot key may hold when the hook mounts: a string that does
\* not parse, or an object with any of the fields of a stored game
StoredInputs ==
    {Unparsable} \cup
    { Restrict(full, keep) : full \in {PlayedSnapshot, WonSnapshot},
                             keep \in SUBSET SnapFields }

\* the persisted memo: JSON.parse(raw), or null when parse throws
Persisted(raw) == IF "raw" \in DOMAIN raw THEN Null ELSE raw

\* persisted?.f ?? fallback
OptionalOr(persisted, f, fallback) ==
    IF persisted # Null THEN FieldOr(persisted, f, fallback) ELSE fallback

\* the useState initialisers, for what JSON.parse returned
InitialState(persisted, initialBoard) ==
    /\ board = initialBoard
    /\ score = OptionalOr(persisted, "score", 0)
    /\ best = OptionalOr(persisted, "best", 0)
    /\ won = OptionalOr(persisted, "won", FALSE)
    /\ over = OptionalOr(persisted, "over", FALSE)
    /\ lastSpawn = OptionalOr(persisted, "lastSpawn", Null)
    /\ history = OptionalOr(persisted, "history", <<>>)
    /\ reachedTarget =
          OptionalOr(persisted, "reachedTarget", maxTile(initialBoard) >= TARGET)

\* the moves explored on what was loaded
LoadMoves == 1

\* the first render of useGame over a stored input, before its effects
InitLoad ==
    /\ hookFile = "part_004"
    /\ \E raw \in StoredInputs :
          /\ snapshot = raw
          /\ InitialState(Persisted(raw),
                          OptionalOr(Persisted(raw), "board",
                                     createEmptyBoard(BOARD_SIZE)))
          /\ bestGlobal = ScanBest(0, raw, Null)
    /\ parked = Null
    /\ globalBestKey = 0
    /\ OneProfile
    /\ storeFull = FALSE
    /\ lastOp = Op("render", "-", "done", FALSE)
    /\ dismissed = FALSE
    /\ trail = <<>>
    /\ undone = 0
    /\ fuel = LoadMoves
    /\ highDraws = 0
    /\ probe = NoProbe

\* if (persisted && persisted.board)
Adopts(persisted) == persisted # Null /\ "board" \in DOMAIN persisted

\* the mount effect's first branch: the stored fields, with ?? defaults
MountAdopts(persisted) ==
    /\ LoadSession(Rehydrate(persisted))
    /\ bestGlobal' = ScanBest(globalBestKey, snapshot, parked)
    /\ lastOp' = Op("mount", "-", "adopted", FALSE)
    /\ UNCHANGED <<storeVars, highDraws>>

\* the mount effect's second branch: a fresh game, stored at once
MountStartsFresh ==
    /\ \E b2 \in FreshBoards :
          /\ highDraws + b2.highs <= MaxHighDraws
          /\ highDraws' = highDraws + b2.highs
          /\ LoadSession(FreshSnapshot(b2))
          /\ snapshot' = FreshSnapshot(b2)
    /\ bestGlobal' = ScanBest(globalBestKey, Null, parked)
    /\ lastOp' = Op("mount", "-", "fresh", TRUE)
    /\ UNCHANGED <<globalBestKey, parked>>

\* the effect that runs once for the playerId
mountEffect ==
    /\ lastOp.name = "render"
    /\ IF Adopts(Persisted(snapshot))
       THEN MountAdopts(Persisted(snapshot))
       ELSE MountStartsFresh
    /\ UNCHANGED <<rosterVars, envVars, dismissed, trail, undone, fuel, probe>>

\* the handlers on what was loaded
NextLoad ==
    \/ mountEffect
    \/ lastOp.name # "render" /\ \E dir \in Directions : applyMove(dir)
    \/ lastOp.name # "render" /\ undo

SpecLoad == InitLoad /\ [][NextLoad]_vars

\* ------------------------------------------------- the usePlayers hook alone
\* the handlers of usePlayers called in any order, from the list the mount
\* effect makes of an empty store; the session of useGame is left as it is.
\* probe keeps the players and currentId the handler was called with.
RosterStep(name, id) ==
    /\ lastOp' = Op(name, id, "done", FALSE)
    /\ probe' = [dir |-> name,
                 arg |-> [players |-> players, currentId |-> currentId],
                 ret |-> <<>>]
    /\ UNCHANGED <<sessionVars, bestGlobal, storeVars, envVars, ghostVars>>

\* a fresh game with two 2s side by side in the top row
InitRoster ==
    /\ InitWith("useGame.ts")
    /\ board = <<<<2, 2, 0, 0>>, ZeroLine, ZeroLine, ZeroLine>>

selectListed ==
    \E id \in PlayerIds : Listed(id) /\ select(id) /\ RosterStep("select", id)

createNamed ==
    /\ Len(players) < MaxPlayers
    /\ \E id \in uid, name \in TypedNames :
          create(id, name) /\ RosterStep("create", id)

renameAny ==
    \E id \in PlayerIds, name \in TypedNames :
        rename(id, name) /\ RosterStep("rename", id)

removeAny ==
    \E id \in PlayerIds : remove(id) /\ RosterStep("remove", id)

NextRoster ==
    \/ selectListed
    \/ createNamed
    \/ renameAny
    \/ removeAny

SpecRoster == InitRoster /\ [][NextRoster]_vars


\* addRandomTile, hasMoves and maxTile called on boards: three full boards
\* with up to MaxHoles cells emptied, the empty board, the
\* board of the maxTile test, and what addRandomTile makes of them
MaxHoles == 2
MaxSpawns == 3

Punch(b, holes) ==
    [r \in 1..Len(b) |-> [c \in 1..Len(b) |-> IF <<r, c>> \in holes THEN 0 ELSE b[r][c]]]

HoleSets ==
    { h \in SUBSET ((1..BOARD_SIZE) \X (1..BOARD_SIZE)) : Cardinality(h) <= MaxHoles }

TestBoard ==
    << <<2, 4, 8, 16>>, <<32, 64, 128, 256>>, <<512, 1024, 2048, 0>>, <<0, 0, 0, 0>> >>

\* a full board whose only equal neighbours are one above the other
StripedBoard ==
    << <<2, 4, 2, 4>>, <<2, 4, 2, 4>>, <<4, 2, 4, 2>>, <<4, 2, 4, 2>> >>

FullBoards == {StuckBoard, StripedBoard, transpose(StripedBoard)}

SampleBoards ==
    { Punch(b, h) : b \in FullBoards, h \in HoleSets }
       \cup {createEmptyBoard(BOARD_SIZE), TestBoard}

\* probe when fn has been called on board b, returned ret and left board cur
CallRecord(fn, b, ret, cur) == [dir |-> fn, arg |-> b, ret |-> ret, cur |-> cur]

InitBoards ==
    /\ \E b \in SampleBoards : probe = CallRecord("none", b, Null, b)
    /\ board = createEmptyBoard(BOARD_SIZE)
    /\ score = 0
    /\ best = 0
    /\ won = FALSE
    /\ over = FALSE
    /\ lastSpawn = Null
    /\ history = <<>>
    /\ reachedTarget = FALSE
    /\ bestGlobal = 0
    /\ snapshot = <<>>
    /\ parked = Null
    /\ OneProfile
    /\ hookFile = "part_004"
    /\ storeFull = FALSE
    /\ globalBestKey = 0
    /\ lastOp = Op("init", "-", "done", FALSE)
    /\ dismissed = FALSE
    /\ trail = <<>>
    /\ undone = 0
    /\ fuel = MaxSpawns
    /\ highDraws = 0

Spawned(b, res) == probe' = CallRecord("addRandomTile", b, res, res.board)

\* addRandomTile on the board held, which becomes the board held
CallAddRandomTile ==
    /\ fuel > 0
    /\ fuel' = fuel - 1
    /\ \E dPos \in Draws, dVal \in Draws :
          Spawned(probe.cur, addRandomTile(probe.cur, dPos, dVal))
    /\ UNCHANGED <<sessionVars, bestGlobal, storeVars, rosterVars, envVars, lastOp, dismissed, trail,
                   undone, highDraws>>

CallHasMoves ==
    /\ probe' = CallRecord("hasMoves", probe.cur, hasMoves(probe.cur), probe.cur)
    /\ UNCHANGED <<sessionVars, bestGlobal, storeVars, rosterVars, envVars, lastOp, ghostVars>>

CallMaxTile ==
    /\ probe' = CallRecord("maxTile", probe.cur, maxTile(probe.cur), probe.cur)
    /\ UNCHANGED <<sessionVars, bestGlobal, storeVars, rosterVars, envVars, lastOp, ghostVars>>

NextBoards == CallAddRandomTile \/ CallHasMoves \/ CallMaxTile

SpecBoards == InitBoards /\ [][NextBoards]_vars

\* =================================================================== claims
\* ---- helpers of the engine claims, written from the claims' words
\* the cell of board b at a 0-based coordinate
Cell(b, p) == b[p[1] + 1][p[2] + 1]

AllCoords == { <<r, c>> : r \in 0..(BOARD_SIZE - 1), c \in 0..(BOARD_SIZE - 1) }

\* the moves of a result that end at coordinate p
MovesTo(ms, p) == { k \in 1..Len(ms) : ms[k].to = p }

\* the non-zero values of a line in their original order
RECURSIVE Compact(_)
Compact(line) ==
    IF line = <<>> THEN <<>>
    ELSE (IF Head(line) # 0 THEN <<Head(line)>> ELSE <<>>) \o Compact(Tail(line))

\* a compacted line with every adjacent equal pair, found left to right,
\* replaced by one tile of double value
RECURSIVE PairUp(_)
PairUp(vals) ==
    IF Len(vals) < 2 THEN vals
    ELSE IF vals[1] = vals[2]
         THEN <<2 * vals[1]>> \o PairUp(Tail(Tail(vals)))
         ELSE <<vals[1]>> \o PairUp(Tail(vals))

\* the sum of the doubled values PairUp creates
RECURSIVE PairGain(_)
PairGain(vals) ==
    IF Len(vals) < 2 THEN 0
    ELSE IF vals[1] = vals[2]
         THEN 2 * vals[1] + PairGain(Tail(Tail(vals)))
         ELSE PairGain(Tail(vals))

ZeroPad(vals, n) == [c \in 1..n |-> IF c <= Len(vals) THEN vals[c] ELSE 0]

ExpectedRow(line) == ZeroPad(PairUp(Compact(line)), BOARD_SIZE)

ExpectedLeft(b) == [r \in 1..BOARD_SIZE |-> ExpectedRow(b[r])]

ExpectedGain(b) == SumSeq([r \in 1..BOARD_SIZE |-> PairGain(Compact(b[r]))])

\* the mirror image of a board: each row read right to left
Mirror(b) == [r \in 1..BOARD_SIZE |-> [c \in 1..BOARD_SIZE |-> b[r][BOARD_SIZE + 1 - c]]]

\* rows and columns exchanged
Flip(b) == [r \in 1..BOARD_SIZE |-> [c \in 1..BOARD_SIZE |-> b[c][r]]]

Called(dir) == probe.dir = dir

\* two 2s stacked at the top of column 0
StackedTwos == <<<<2, 0, 0, 0>>, <<2, 0, 0, 0>>, ZeroLine, ZeroLine>>

\* C1: no double merge.  In every directional move each non-zero input cell
\* is the source of exactly one tile movement, and each destination cell
\* receives either one unmerged tile (and holds its value) or exactly two
\* merged tiles of equal value v (and holds 2v, never more); sliding
\* [2,2,2,2] left gives [4,4,0,0], and gained = 8 when that is the only row.
C1_NoDoubleMerge ==
    Called("none") \/
    LET ms == probe.ret.moves
        out == probe.ret.board
    IN /\ \A p \in AllCoords :
             Cardinality({ k \in 1..Len(ms) : ms[k].from = p })
                = (IF Cell(probe.arg, p) # 0 THEN 1 ELSE 0)
       /\ \A k \in 1..Len(ms) : ms[k].value = Cell(probe.arg, ms[k].from)
       /\ \A p \in AllCoords :
             \/ MovesTo(ms, p) = {} /\ Cell(out, p) = 0
             \/ \E k \in MovesTo(ms, p) :
                   /\ MovesTo(ms, p) = {k}
                   /\ ~ms[k].merged
                   /\ Cell(out, p) = ms[k].value
             \/ \E k, j \in MovesTo(ms, p) :
                   /\ k # j
                   /\ MovesTo(ms, p) = {k, j}
                   /\ ms[k].merged /\ ms[j].merged
                   /\ ms[k].value = ms[j].value
                   /\ Cell(out, p) = 2 * ms[k].value
       /\ (Called("left") /\ probe.arg[1] = <<2, 2, 2, 2>>)
             => probe.ret.board[1] = <<4, 4, 0, 0>>
       /\ (Called("left") /\ probe.arg = <<<<2, 2, 2, 2>>, ZeroLine, ZeroLine, ZeroLine>>)
             => probe.ret.gained = 8

\* C1 witness: moveLeft has run on a board whose first row is [2,2,2,2]
C1_Witness ==
    /\ Called("left")
    /\ probe.arg[1] = <<2, 2, 2, 2>>
    /\ probe.ret.gained >= 8

\* C2: moveLeft turns each row into its non-zero values in order, adjacent
\* equal pairs (left-to-right scan) doubled, padded with zeros to length N;
\* gained is the sum of the doubled values; [2,2,4,0] becomes [4,4,0,0]
\* with gained 4.
C2_MoveLeftRows ==
    Called("left") =>
       /\ probe.ret.board = ExpectedLeft(probe.arg)
       /\ probe.ret.gained = ExpectedGain(probe.arg)
       /\ probe.arg = <<<<2, 2, 4, 0>>, ZeroLine, ZeroLine, ZeroLine>>
             => /\ probe.ret.board[1] = <<4, 4, 0, 0>>
                /\ probe.ret.gained = 4

\* C2 witness: moveLeft has run on the board whose only row is [2,2,4,0]
C2_Witness ==
    /\ Called("left")
    /\ probe.arg = <<<<2, 2, 4, 0>>, ZeroLine, ZeroLine, ZeroLine>>
    /\ probe.ret.moved

\* C3: moveRight(B) is the mirror image of moveLeft(mirror image of B), with
\* the same gained and moved; moveRight on [2,2,4,0] yields [0,0,4,4].
C3_RightMirrorsLeft ==
    Called("right") =>
       /\ probe.ret.board = Mirror(moveLeft(Mirror(probe.arg)).board)
       /\ probe.ret.gained = moveLeft(Mirror(probe.arg)).gained
       /\ probe.ret.moved = moveLeft(Mirror(probe.arg)).moved
       /\ probe.arg[1] = <<2, 2, 4, 0>> => probe.ret.board[1] = <<0, 0, 4, 4>>

\* C3 witness: moveRight has run on a board whose first row is [2,2,4,0]
C3_Witness ==
    /\ Called("right")
    /\ probe.arg[1] = <<2, 2, 4, 0>>
    /\ probe.ret.board[1] = <<0, 0, 4, 4>>

\* C4: moveUp(B) is the transpose of moveLeft(transpose(B)) and moveDown(B)
\* the transpose of moveRight(transpose(B)), with the same gained and moved;
\* two 2s stacked at the top of column 0 give 4 at row 0 (and 0 at row 1)
\* for up, and 4 at the last row for down.
C4_ColumnMoves ==
    /\ Called("up") =>
          /\ probe.ret.board = Flip(moveLeft(Flip(probe.arg)).board)
          /\ probe.ret.gained = moveLeft(Flip(probe.arg)).gained
          /\ probe.ret.moved = moveLeft(Flip(probe.arg)).moved
    /\ Called("down") =>
          /\ probe.ret.board = Flip(moveRight(Flip(probe.arg)).board)
          /\ probe.ret.gained = moveRight(Flip(probe.arg)).gained
          /\ probe.ret.moved = moveRight(Flip(probe.arg)).moved
    /\ (Called("up") /\ probe.arg = StackedTwos)
          => Cell(probe.ret.board, <<0, 0>>) = 4 /\ Cell(probe.ret.board, <<1, 0>>) = 0
    /\ (Called("down") /\ probe.arg = StackedTwos)
          => /\ Cell(probe.ret.board, <<3, 0>>) = 4
             /\ Cell(probe.ret.board, <<2, 0>>) = 0

\* C4 witness: moveDown has run on the board with two 2s stacked at the top
\* of column 0
C4_Witness ==
    /\ Called("down")
    /\ probe.arg = StackedTwos
    /\ probe.ret.gained = 4

\* ---- helpers of the session claims
AppliedMove == lastOp.name = "applyMove" /\ lastOp.result = "done"

IgnoredMove == lastOp.name = "applyMove" /\ lastOp.result = "ignored"

\* no field of the session state and nothing in storage changes, and the
\* step made no persistence write
NothingChanges ==
    /\ UNCHANGED <<sessionVars, bestGlobal, storeVars>>
    /\ ~lastOp'.wrote

\* C5: win latch.  Once reachedTarget is true, no applyMove step turns won
\* from false to true, continueGame having been called or not and whatever
\* tiles the move produces.
C5_WinLatch ==
    [][(reachedTarget /\ lastOp'.name = "applyMove") => (won' => won)]_vars

\* C5 witness: after the win modal was dismissed, a successful move has left
\* a tile at or above the target on the board and won is still false
C5_Witness ==
    /\ AppliedMove
    /\ dismissed
    /\ reachedTarget
    /\ maxTile(board) >= TARGET
    /\ ~won

\* C6 (as claimed): once continueGame has dismissed the win modal, won is
\* never true again in that game
C6_NeverWonAfterContinue == dismissed => ~won

\* C7: undo bound.  After 5 consecutive successful moves the undo stack
\* holds exactly 3 entries; 3 undos later the board and score are those of
\* the state 3 moves earlier and the stack is empty; a 4th undo changes
\* nothing.
C7_UndoBound ==
    [][/\ (Len(trail') >= 5 /\ undone' = 0) => Len(history') = 3
       /\ (Len(trail') >= 5 /\ undone' = 3)
             => /\ board' = trail'[3].board
                /\ score' = trail'[3].score
                /\ history' = <<>>
       /\ (Len(trail) >= 5 /\ undone = 3 /\ lastOp'.name = "undo")
             => NothingChanges]_vars

\* C7 witness: 5 moves in a row, 3 undos, and a 4th undo that was ignored
C7_Witness ==
    /\ Len(trail) >= 5
    /\ undone = 3
    /\ lastOp.name = "undo"
    /\ lastOp.result = "ignored"
    /\ board = trail[3].board

\* C8 (as claimed): after a successful applyMove the persisted snapshot
\* equals the in-memory session state, the pushed history entry included
C8_SnapshotIsState == AppliedMove => snapshot = Current

\* C9: idempotence.  An applyMove whose direction changes no cell of the
\* board changes no field of the session state and writes nothing.
C9_UnmovedIsNoOp ==
    [][(lastOp'.name = "applyMove" /\ ~movers(lastOp'.dir, board).moved)
          => NothingChanges]_vars

\* C9 witness: a move was ignored on a live board that other directions can
\* still change
C9_Witness ==
    /\ IgnoredMove
    /\ ~over
    /\ hasMoves(board)
    /\ ~movers(lastOp.dir, board).moved

\* C10: when over is true, applyMove in any direction changes no field of
\* the session state, pushes nothing on the undo stack and persists nothing.
C10_OverIsTerminal ==
    [][(over /\ lastOp'.name = "applyMove") => NothingChanges]_vars

\* C10 witness: a move was ignored while over was true
C10_Witness ==
    /\ IgnoredMove
    /\ over
    /\ ~hasMoves(board)

\* C11: a successful applyMove sets score to the old score plus the move's
\* gained, best to the larger of the old best and the new score, and over
\* to true exactly when the board after the spawn has no legal move.
C11_MoveUpdates ==
    [][(lastOp'.name = "applyMove" /\ lastOp'.result = "done")
          => /\ score' = score + movers(lastOp'.dir, board).gained
             /\ best' = (IF score' > best THEN score' ELSE best)
             /\ over' = ~hasMoves(board')]_vars

\* C11 witness: a successful move has ended the game and left best equal to
\* the new, positive score
C11_Witness ==
    /\ AppliedMove
    /\ over
    /\ ~hasMoves(board)
    /\ best = score
    /\ score > 0

\* C12: undo is a no-op on an empty history; otherwise it removes the newest
\* history entry, restores board, score, won and over from it, sets
\* lastSpawn to null, leaves best unchanged, and persists the restored
\* values together with the shortened history.
C12_UndoRestores ==
    [][lastOp'.name = "undo"
          => IF history = <<>>
             THEN NothingChanges
             ELSE /\ history' = Tail(history)
                  /\ board' = Head(history).board
                  /\ score' = Head(history).score
                  /\ won' = Head(history).won
                  /\ over' = Head(history).over
                  /\ lastSpawn' = Null
                  /\ best' = best
                  /\ lastOp'.wrote
                  /\ snapshot'.board = Head(history).board
                  /\ snapshot'.score = Head(history).score
                  /\ snapshot'.won = Head(history).won
                  /\ snapshot'.over = Head(history).over
                  /\ snapshot'.lastSpawn = Null
                  /\ snapshot'.history = Tail(history)]_vars

\* C12 witness: undo has popped one of several entries and stored the rest
C12_Witness ==
    /\ lastOp.name = "undo"
    /\ lastOp.result = "done"
    /\ history # <<>>
    /\ snapshot.history = history
    /\ lastSpawn = Null

\* C13: reachedTarget is a latch.  Once true it stays true through every
\* applyMove, undo, continueGame and debugSetBoard; only newGame makes it
\* false again.
C13_ReachedLatch ==
    [][/\ (reachedTarget /\ lastOp'.name \in {"applyMove", "undo", "continueGame",
                                              "debugSetBoard"})
             => reachedTarget'
       /\ (reachedTarget /\ ~reachedTarget') => lastOp'.name = "newGame"]_vars

\* C13 witness: undo has taken the board back below the target and
\* reachedTarget is still true
C13_Witness ==
    /\ lastOp.name = "undo"
    /\ lastOp.result = "done"
    /\ reachedTarget
    /\ maxTile(board) < TARGET

\* the coordinates of the non-empty cells of a board
Tiles(b) == { p \in AllCoords : Cell(b, p) # 0 }

\* C14: newGame resets the session to an initial game: a board with exactly
\* two tiles, each 2 or 4, score 0, won false, over false, reachedTarget
\* false and an empty undo history; the player's best and the global best
\* keep their values.
C14_NewGameResets ==
    [][lastOp'.name = "newGame"
          => /\ Cardinality(Tiles(board')) = 2
             /\ \A p \in Tiles(board') : Cell(board', p) \in {2, 4}
             /\ score' = 0
             /\ ~won'
             /\ ~over'
             /\ ~reachedTarget'
             /\ history' = <<>>
             /\ best' = best
             /\ bestGlobal' = bestGlobal]_vars

\* C14 witness: newGame has run in a session that had scored
C14_Witness ==
    /\ lastOp.name = "newGame"
    /\ best > 0
    /\ bestGlobal > 0
    /\ score = 0

\* the fields continueGame is said to leave alone
KeptByContinue == {"reachedTarget", "board", "score", "best", "over", "history"}

\* C15 (as claimed): continueGame sets won to false and leaves reachedTarget,
\* board, score, best, over and the undo history unchanged, in memory and
\* in the persisted snapshot
C15_ContinueFrame ==
    [][lastOp'.name = "continueGame"
          => /\ ~won'
             /\ UNCHANGED <<reachedTarget, board, score, best, over, history>>
             /\ ~snapshot'.won
             /\ \A f \in KeptByContinue : snapshot'[f] = snapshot[f]]_vars

\* ---- helpers of the board function claims
AllFilled(b) == Tiles(b) = AllCoords

\* p and q are neighbours in a row or in a column
Adjacent(p, q) ==
    \/ p[1] = q[1] /\ (p[2] = q[2] + 1 \/ q[2] = p[2] + 1)
    \/ p[2] = q[2] /\ (p[1] = q[1] + 1 \/ q[1] = p[1] + 1)

\* C16: addRandomTile changes exactly one cell, which was empty, to 2 or 4
\* and returns its position whenever the board has an empty cell; on a full
\* board it returns the board unchanged with a null position.
C16_SpawnOneEmptyCell ==
    Called("addRandomTile") =>
       IF AllFilled(probe.arg)
       THEN probe.ret.board = probe.arg /\ probe.ret.pos = Null
       ELSE \E p \in AllCoords :
               /\ probe.ret.pos = p
               /\ Cell(probe.arg, p) = 0
               /\ Cell(probe.ret.board, p) \in {2, 4}
               /\ \A q \in AllCoords \ {p} :
                     Cell(probe.ret.board, q) = Cell(probe.arg, q)

\* C16 witness: addRandomTile has filled the last empty cell of a board, and
\* the next call on the full board has returned a null position
C16_Witness ==
    /\ Called("addRandomTile")
    /\ AllFilled(probe.arg)
    /\ probe.ret.pos = Null
    /\ fuel < MaxSpawns - 1

\* C17: hasMoves is true exactly when the board has an empty cell or two
\* horizontally or vertically adjacent cells with equal non-zero values; it
\* is false for the 4x4 checkerboard of 2 and 4.
C17_HasMovesExact ==
    Called("hasMoves") =>
       /\ probe.ret = (\/ ~AllFilled(probe.arg)
                       \/ \E p, q \in AllCoords :
                             /\ Adjacent(p, q)
                             /\ Cell(probe.arg, p) # 0
                             /\ Cell(probe.arg, p) = Cell(probe.arg, q))
       /\ probe.arg = << <<2, 4, 2, 4>>, <<4, 2, 4, 2>>, <<2, 4, 2, 4>>, <<4, 2, 4, 2>> >>
             => probe.ret = FALSE

\* C17 witness: hasMoves has returned false for the checkerboard
C17_Witness ==
    /\ Called("hasMoves")
    /\ probe.arg = << <<2, 4, 2, 4>>, <<4, 2, 4, 2>>, <<2, 4, 2, 4>>, <<4, 2, 4, 2>> >>
    /\ probe.ret = FALSE

\* C18: maxTile returns the largest cell value on the board, 0 for the
\* all-empty board and 2048 for a board holding 2048 among smaller tiles.
C18_MaxTileIsMaximum ==
    Called("maxTile") =>
       /\ \E p \in AllCoords : Cell(probe.arg, p) = probe.ret
       /\ \A p \in AllCoords : Cell(probe.arg, p) <= probe.ret
       /\ Tiles(probe.arg) = {} => probe.ret = 0
       /\ (\E p \in AllCoords : Cell(probe.arg, p) = 2048) => probe.ret >= 2048

\* C18 witness: maxTile has returned 2048 for a board whose first row holds
\* only smaller tiles
C18_Witness ==
    /\ Called("maxTile")
    /\ probe.ret = 2048
    /\ Cell(probe.arg, <<0, 0>>) = 2
    /\ Cardinality(Tiles(probe.arg)) > 1

\* ---- helpers of the profile claims
SessionOps == {"applyMove", "undo", "newGame", "continueGame", "debugSetBoard"}

\* C19 (as claimed): after any sequence of session operations, loading the
\* active player's session again from its persisted snapshot yields the
\* board, score, best, won, over, reachedTarget and undo history that were
\* in memory
C19_ReloadKeepsSession ==
    [][lastOp'.name = "reload"
          => UNCHANGED <<board, score, best, won, over, reachedTarget, history>>]_vars

\* C20: applyMove, undo, newGame, continueGame and debugSetBoard performed
\* while one profile is active leave the persisted snapshot of the other
\* profile unchanged.
C20_OtherSaveUntouched ==
    [][lastOp'.name \in SessionOps => parked' = parked]_vars

\* C20 witness: the other profile has a stored game with a score and an
\* undo entry behind it, and the active profile has moved, writing its own
\* snapshot
C20_Witness ==
    /\ AppliedMove
    /\ lastOp.wrote
    /\ parked # Null
    /\ parked.score > 0
    /\ parked.board # snapshot.board
    /\ snapshot.board = board

\* C21 (as claimed): removing a profile deletes that profile's persisted
\* session snapshot and best-score record together with the profile: after
\* remove(id) no stored snapshot keyed by id remains. The removed id is never
\* the current one after remove, so its snapshot key is parked.
C21_RemoveDeletesSnapshot ==
    [][lastOp'.name = "remove" => parked' = Null]_vars

\* ---- helpers of the global-best claims
\* the best a stored snapshot holds, 0 where none is stored
BestOf(stored) == IF stored = Null THEN 0 ELSE stored.best

MaxStoredBest == Max(globalBestKey, Max(BestOf(snapshot), BestOf(parked)))

\* C22 (as claimed): the global best shown after every persist equals the
\* maximum of the persisted global floor and the best values of all stored
\* profile snapshots, and it is not lowered when a profile is deleted.
C22_GlobalBestIsMax ==
    [][/\ lastOp'.wrote => bestGlobal' = MaxStoredBest'
       /\ lastOp'.name = "remove" => bestGlobal' >= bestGlobal]_vars

\* C23 (as claimed): resetBest with scope 'all' leaves the best of every
\* known profile at 0 and the global best (persisted floor and displayed
\* value) at 0, whatever the current score is, and re-persists the current
\* session.
C23_ResetAllZeroes ==
    [][(lastOp'.name = "resetBest" /\ lastOp'.dir = "all")
          => /\ best' = 0
             /\ BestOf(snapshot') = 0
             /\ BestOf(parked') = 0
             /\ globalBestKey' = 0
             /\ bestGlobal' = 0
             /\ snapshot' = Current']_vars

\* C24 (as claimed): a failing storage write during any session operation is
\* swallowed: the operation does not raise, and the in-memory state is
\* updated exactly as it would be with a working store, where the global
\* best shown is never below the best of the session.
C24_WriteFailureSwallowed ==
    [][lastOp'.name \in SessionOps
          => /\ lastOp'.result \notin {"raised", "crashed"}
             /\ bestGlobal' >= best']_vars

\* ---- helpers of the loading claim
\* the stored snapshot lacks a field of a persisted session
Partial(stored) == DOMAIN stored # SnapFields

\* C25 (as claimed): when the stored snapshot of a player is unparsable, or
\* parses but is partial (for example lacks a board), loading the session
\* falls back to a fresh initial game (two tiles, score 0, empty history)
\* instead of failing or adopting the partial data.
C25_BadSnapshotStartsFresh ==
    [][(lastOp'.name = "mount" /\ Partial(snapshot))
          => /\ Cardinality(Tiles(board')) = 2
             /\ score' = 0
             /\ history' = <<>>
             /\ lastOp'.result = "fresh"]_vars

\* ---- helpers of the debug claims
\* a 4x4 grid of non-negative numbers
IsGrid(b) ==
    /\ Len(b) = BOARD_SIZE
    /\ \A r \in 1..Len(b) :
          /\ Len(b[r]) = BOARD_SIZE
          /\ \A c \in 1..Len(b[r]) : b[r][c] >= 0

\* C26 (as claimed): the Set board entry point rejects every input that is
\* not a 4x4 grid of non-negative numbers with an error and without calling
\* debugSetBoard, so that debugSetBoard only ever receives such a grid and
\* the session state is unchanged on rejection.
C26_PanelRejectsMalformed ==
    [][/\ lastOp'.name = "debugSetBoard" => IsGrid(board')
       /\ lastOp'.result = "rejected" => UNCHANGED <<sessionVars, bestGlobal, storeVars>>]_vars

\* C27 (as claimed): create always produces an id different from the id of
\* every profile already in the list, so profile ids are pairwise distinct
\* in every reachable state.
C27_IdsDistinct ==
    \A i \in 1..Len(players), j \in 1..Len(players) :
        i # j => players[i].id # players[j].id

\* C28 (as claimed): debugSetBoard uses the same win rule as applyMove: when
\* reachedTarget is false and the new board's highest tile is at least the
\* target, debugSetBoard sets won = true and reachedTarget = true; otherwise
\* it leaves won as it was.
C28_DebugWinRule ==
    [][lastOp'.name = "debugSetBoard"
          => IF ~reachedTarget /\ maxTile(board') >= TARGET
             THEN won' /\ reachedTarget'
             ELSE won' = won]_vars

\* the sum of the positive cells of b
PositiveSum(b) ==
    SumSeq([k \in 1..(BOARD_SIZE * BOARD_SIZE) |->
              Max(0, b[((k - 1) \div BOARD_SIZE) + 1][((k - 1) % BOARD_SIZE) + 1])])

\* the fields debugSetBoard is said to set
DebugFields == {"board", "score", "over", "history", "lastSpawn"}

\* C29: debugSetBoard(B) sets the board to B, the score to the sum of B's
\* positive cells, over to the negation of hasMoves(B), empties the undo
\* history, clears lastSpawn, and persists exactly these values.
C29_DebugSetsAndPersists ==
    [][lastOp'.name = "debugSetBoard"
          => /\ score' = PositiveSum(board')
             /\ over' = ~hasMoves(board')
             /\ history' = <<>>
             /\ lastSpawn' = Null
             /\ \A f \in DebugFields : snapshot'[f] = Current'[f]]_vars

\* C29 witness: debugSetBoard has replaced a played game, with a score and
\* an undo entry, by a board with no move left
C29_Witness ==
    /\ lastOp.name = "debugSetBoard"
    /\ board = StuckBoard
    /\ score = 48
    /\ over
    /\ history = <<>>
    /\ snapshot.board = StuckBoard
    /\ snapshot.over

\* C30 (as claimed): in every reachable session state, including states
\* rehydrated from a persisted snapshot, over is true exactly when the board
\* has no legal move (no empty cell and no equal adjacent pair).
C30_OverIffNoMoves ==
    over <=> (AllFilled(board) /\ \A p \in AllCoords, q \in AllCoords :
                                     Adjacent(p, q) => Cell(board, p) # Cell(board, q))

\* ---- helpers of the history claim
\* the {board, score, won, over} of the current state
PriorState == [board |-> board, score |-> score, won |-> won, over |-> over]

\* C31: the undo history has at most 3 entries ordered newest first, and
\* each entry is the {board, score, won, over} of the state immediately
\* before a successful move; a 4th push silently drops the oldest entry.
\* Entries come into the history by the push of a successful move only;
\* every other change pops the newest entry or empties the history.
C31_HistoryShape ==
    [][/\ Len(history') <= 3
       /\ (lastOp'.name = "applyMove" /\ lastOp'.result = "done")
             => history' = (IF Len(history) = 3
                            THEN <<PriorState, history[1], history[2]>>
                            ELSE <<PriorState>> \o history)
       /\ history' # history
             => \/ lastOp'.name = "applyMove" /\ lastOp'.result = "done"
                \/ history' = Tail(history)
                \/ history' = <<>>]_vars

\* C31 witness: a 4th move in a row has pushed its entry on a full history,
\* which holds the states before the last three moves, newest first
C31_Witness ==
    /\ AppliedMove
    /\ undone = 0
    /\ Len(trail) >= 4
    /\ Len(history) = 3
    /\ \A k \in 1..3 : /\ history[k].board = trail[k].board
                       /\ history[k].score = trail[k].score
    /\ history[1].board # history[3].board

\* C32 (as claimed): best is a high-water mark of score: in every state
\* reachable through applyMove, undo, newGame, continueGame and
\* debugSetBoard, the in-memory best is at least the in-memory score.
C32_BestAtLeastScore == best >= score

\* C33 (as claimed): within one game (no newGame step) score is at least 0
\* and never decreases from one session state to the next, whatever
\* operation is performed.
C33_ScoreNeverDecreases ==
    [][lastOp'.name # "newGame" => (score' >= 0 /\ score' >= score)]_vars

\* C33 (amended): score is at least 0 in every state; applyMove and
\* continueGame never lower it; undo sets it to the score recorded in the
\* newest history entry, the one it pops.
C33_ScoreMonotoneUntilUndo ==
    [][/\ score' >= 0
       /\ lastOp'.name \in {"applyMove", "continueGame"} => score' >= score
       /\ (lastOp'.name = "undo" /\ lastOp'.result = "done")
             => (history # <<>> /\ score' = history[1].score)]_vars

\* a move that merged has raised the score above the one recorded for undo
C33_Witness ==
    /\ AppliedMove
    /\ history # <<>>
    /\ history[1].score < score

\* a power of two that is at least 2
RECURSIVE IsPowerOfTwo(_)
IsPowerOfTwo(v) ==
    /\ v >= 2
    /\ \/ v = 2
       \/ v % 2 = 0 /\ IsPowerOfTwo(v \div 2)

\* every non-zero cell of b is a power of two that is at least 2
PowerCells(b) ==
    \A r \in 1..Len(b) : \A c \in 1..Len(b[r]) :
        b[r][c] # 0 => IsPowerOfTwo(b[r][c])

\* C34: in every session state reachable from a fresh game through
\* applyMove, undo, newGame and continueGame, every non-zero cell of the
\* board and of every board stored in the undo history is a power of two
\* that is at least 2.
C34_CellsArePowersOfTwo ==
    /\ PowerCells(board)
    /\ \A k \in 1..Len(history) : PowerCells(history[k].board)

\* two successive merges have built an 8 and the history holds two boards
C34_Witness ==
    /\ AppliedMove
    /\ Len(history) >= 2
    /\ maxTile(board) = 8
    /\ maxTile(history[1].board) < 8

\* the board after n successive calls of movers[dir], starting from b
RECURSIVE Repeated(_, _, _)
Repeated(dir, b, n) ==
    IF n = 0 THEN b ELSE Repeated(dir, movers(dir, b).board, n - 1)

\* C35: for every board B and direction D, the move reports moved = false
\* exactly when the returned board equals B, and then gained is 0;
\* re-applying the same direction to that output again reports
\* moved = false, and repeating one direction from any board reaches such a
\* fixed point after finitely many moves (at most BOARD_SIZE of them).
C35_MovedIffChanged ==
    probe.dir # "none"
       => /\ (probe.ret.moved = FALSE) <=> (probe.ret.board = probe.arg)
          /\ ~probe.ret.moved
                => /\ probe.ret.gained = 0
                   /\ ~movers(probe.dir, probe.ret.board).moved
          /\ \E n \in 0..BOARD_SIZE :
                ~movers(probe.dir, Repeated(probe.dir, probe.arg, n)).moved

\* a call that changed nothing on a board that earlier calls had merged up
\* to an 8, and a call that moved
C35_Witness ==
    /\ probe.dir # "none"
    /\ ~probe.ret.moved
    /\ probe.ret.board = probe.arg
    /\ maxTile(probe.arg) >= 8
    /\ movers("up", probe.arg).moved

\* C36: after any sequence of create, rename, remove and select (select
\* given the id of a listed profile), the active id is the id of a listed
\* profile whenever the list is non-empty, and is null when the list is
\* empty; removing the active profile makes the first remaining profile
\* active.
C36_ActiveIsListed ==
    /\ players # <<>> => Listed(currentId)
    /\ players = <<>> => currentId = NullId
    /\ (/\ probe.dir = "remove"
        /\ lastOp.dir = probe.arg.currentId
        /\ players # <<>>)
          => currentId = players[1].id

\* the active profile, one of two, was removed after a rename, and the
\* one that remains is active
C36_Witness ==
    /\ probe.dir = "remove"
    /\ lastOp.dir = probe.arg.currentId
    /\ Len(probe.arg.players) = 2
    /\ Len(players) = 1
    /\ currentId # probe.arg.currentId
    /\ currentId = players[1].id
    /\ players[1].name = "Ann"

C38_WonImpliesReached == won => reachedTarget

\* a move has merged the first 2048 of the game: won and reachedTarget are set
C38_Witness ==
    /\ AppliedMove
    /\ won
    /\ reachedTarget
    /\ maxTile(board) >= TARGET
    /\ history # <<>>
    /\ ~history[1].won

\* what a committed move made of the merged board mb: mb had an empty cell,
\* the spawn is recorded, and the new board nb has one more tile than mb
SpawnedOnto(mb, nb, pos) ==
    /\ Tiles(mb) # AllCoords
    /\ pos # Null
    /\ Cardinality(Tiles(nb)) = Cardinality(Tiles(mb)) + 1

\* C39: a successful applyMove always spawns a tile: whenever the
\* directional move reports moved = true the merged board has at least one
\* empty cell, so lastSpawn is non-null after the move and the new board has
\* exactly one more non-zero cell than the merged board.
C39_MoveAlwaysSpawns ==
    [][(lastOp'.name = "applyMove" /\ lastOp'.result = "done")
          => \E mr \in {movers(lastOp'.dir, board)} :
                /\ mr.moved
                /\ SpawnedOnto(mr.board, board', lastSpawn')]_vars

\* a move on a full board: the merge freed the cell the new tile took
C39_Witness ==
    /\ AppliedMove
    /\ lastSpawn # Null
    /\ history # <<>>
    /\ AllFilled(history[1].board)
    /\ Cell(board, lastSpawn) # 0

\* the entries of a move list that took part in a merge
MergedEntries(moves) == { i \in 1..Len(moves) : moves[i].merged }

\* the values of those entries added up: v + v for each merge
RECURSIVE MergedValues(_)
MergedValues(moves) ==
    IF moves = <<>> THEN 0
    ELSE (IF Head(moves).merged THEN Head(moves).value ELSE 0)
            + MergedValues(Tail(moves))

\* C40: a directional move conserves tile mass: for every board and
\* direction the sum of all cell values of the returned board equals the sum
\* of the input board, and the number of non-zero cells drops by exactly the
\* number of merges (two merged entries of the move list each), each merge
\* contributing its doubled value to gained.
C40_MassConserved ==
    probe.dir # "none"
       => /\ SumSeq(Flatten(probe.ret.board)) = SumSeq(Flatten(probe.arg))
          /\ 2 * (Cardinality(Tiles(probe.arg)) - Cardinality(Tiles(probe.ret.board)))
                = Cardinality(MergedEntries(probe.ret.moves))
          /\ probe.ret.gained = MergedValues(probe.ret.moves)

\* a column move that merged two pairs, a pair of 2s among them
C40_Witness ==
    /\ probe.dir \in {"up", "down"}
    /\ Cardinality(MergedEntries(probe.ret.moves)) >= 4
    /\ probe.ret.gained >= 8
    /\ \E i \in MergedEntries(probe.ret.moves) : probe.ret.moves[i].value = 2
    /\ Cardinality(Tiles(probe.ret.board)) + 2 <= Cardinality(Tiles(probe.arg))

====
